---- MODULE Spec2Model ----
(***************************************************************************)
(* A model of flights.py: the Booking record, the helper sublist_in_list,  *)
(* and the FlightsSchedule catalog with add_booking and its two select     *)
(* generators.  Lists are TLA+ sequences (1-based); Python indices are     *)
(* kept 0-based inside the operators that model indexing code.             *)
(***************************************************************************)
EXTENDS Integers, Sequences, FiniteSets, TLC

\* ------------------------------------------------------------------------
\* Bounds and input universes
\* ------------------------------------------------------------------------

\* Model bound: add_booking is not offered once the catalog holds this many.
MaxBookings == 2

\* The numbers compared against in the two assert statements of add_booking.
IteneraryLimit == 10
BookingsLimit == 1000

Airports == {"AMS", "LHR", "CDG"}

PassengerNames == {"Alice"}

\* Departure timestamps of bookings, and the timestamps queries are made with.
Departures == {0, 1}
QueryTimes == {0, 1, 2}

NineStops == [i \in 1..(IteneraryLimit - 1) |-> IF i % 2 = 1 THEN "CDG" ELSE "AMS"]
TenStops == [i \in 1..IteneraryLimit |-> IF i % 2 = 1 THEN "CDG" ELSE "LHR"]

Iteneraries ==
    { <<>>,
      <<"AMS">>,
      <<"LHR", "AMS">>,
      <<"AMS", "LHR">>,
      <<"AMS", "CDG", "LHR">>,
      <<"CDG", "AMS", "LHR">>,
      <<"AMS", "LHR", "AMS", "LHR">>,
      NineStops,
      TenStops }

Booking(name, dep, itin) ==
    [passenger_name |-> name, departure |-> dep, itenerary |-> itin]

Bookings ==
    { Booking(n, d, it) : n \in PassengerNames, d \in Departures, it \in Iteneraries }

\* The smaller universe used when a generator is consumed step by step.
LazyBookings ==
    { Booking("Alice", 0, <<"AMS", "LHR">>),
      Booking("Alice", 1, <<"LHR", "AMS">>),
      Booking("Alice", 0, <<"AMS", "CDG", "LHR">>),
      Booking("Alice", 1, <<"CDG", "AMS", "LHR">>) }

LazyAirports == {"AMS", "LHR"}

\* ------------------------------------------------------------------------
\* State
\* ------------------------------------------------------------------------

VARIABLES
    bookings,   \* self.bookings of the one FlightsSchedule instance
    gens,       \* <<>> or <<g>>: the generator object the caller holds
    result,     \* the bookings the caller has pulled from its generator
    op,         \* the last call made: its name and arguments
    err,        \* the exception the last call raised, or "none"
    ret         \* the value the last call returned

vars == <<bookings, gens, result, op, err, ret>>

SelfRef == "self"
NoneRef == "None"
GeneratorRef == "generator"

NoBooking == Booking("", 0, <<>>)

Op(name, booking, airport1, airport2, departs_before, repeat) ==
    [name |-> name, booking |-> booking, airport1 |-> airport1,
     airport2 |-> airport2, departs_before |-> departs_before, repeat |-> repeat]

\* ------------------------------------------------------------------------
\* Python list helpers
\* ------------------------------------------------------------------------

Min(a, b) == IF a < b THEN a ELSE b

\* range(n)
Range(n) == 0..(n - 1)

\* list[lo:hi] for 0 <= lo
Slice(list, lo, hi) == SubSeq(list, lo + 1, Min(hi, Len(list)))

\* truth value of a str used as a condition
Truthy(s) == s # ""

\* ------------------------------------------------------------------------
\* sublist_in_list
\* ------------------------------------------------------------------------

\* faulty variant: range(len(test_list) - len(sublist)), the last window is missed
sublist_in_list_short_range(sublist, test_list) ==
    \E idx \in Range(Len(test_list) - Len(sublist)) :
        Slice(test_list, idx, idx + Len(sublist)) = sublist

\* faulty variant: membership of every element instead of a contiguous window
sublist_in_list_membership(sublist, test_list) ==
    \A k \in 1..Len(sublist) : \E j \in 1..Len(test_list) : test_list[j] = sublist[k]

sublist_in_list(sublist, test_list) ==
    \E idx \in Range(Len(test_list) - Len(sublist) + 1) :
        Slice(test_list, idx, idx + Len(sublist)) = sublist

\* ------------------------------------------------------------------------
\* The generators returned by the two select methods
\* ------------------------------------------------------------------------

\* faulty variant: departure <= departs_before
departs_before_test_inclusive(booking, departs_before) ==
    booking.departure <= departs_before

\* the condition of the generator expression of select_bookings_by_latest_departure_time
departs_before_test(booking, departs_before) ==
    booking.departure < departs_before

\* A generator object.  kind tells which method made it; idx is the position
\* of the list iterator over self.bookings; done is set once the iterator has
\* raised StopIteration.  len_at_call records len(self.bookings) at the call.
Generator(kind, departs_before, sequence_to_search, len_at_call) ==
    [kind |-> kind, departs_before |-> departs_before,
     sequence_to_search |-> sequence_to_search,
     idx |-> 0, done |-> FALSE, len_at_call |-> len_at_call]

new_latest_departure_generator(departs_before, self_bookings) ==
    Generator("departure", departs_before, <<>>, Len(self_bookings))

new_sequential_couple_generator(airport1, airport2, self_bookings) ==
    Generator("couple", 0, <<airport1, airport2>>, Len(self_bookings))

\* the "if" of the generator expression
Selects(g, booking) ==
    IF g.kind = "departure"
    THEN departs_before_test(booking, g.departs_before)
    ELSE sublist_in_list(g.sequence_to_search, booking.itenerary)

\* faulty variant: the generator iterates a copy of the list taken at the call
iterated_list_snapshot(g, self_bookings) ==
    SubSeq(self_bookings, 1, Min(g.len_at_call, Len(self_bookings)))

\* faulty variant: for booking in reversed(self.bookings)
iterated_list_reversed(g, self_bookings) ==
    [i \in 1..Len(self_bookings) |-> self_bookings[Len(self_bookings) + 1 - i]]

\* "for booking in self.bookings": the generator iterates the list object itself
iterated_list(g, self_bookings) == self_bookings

\* next(generator): advance the list iterator to the next selected booking.
\* out is <<booking>> for a yielded booking and <<>> for StopIteration.
RECURSIVE generator_next(_, _)
generator_next(g, self_bookings) ==
    LET list == iterated_list(g, self_bookings) IN
    IF g.done
    THEN [gen |-> g, out |-> <<>>]
    ELSE IF g.idx >= Len(list)
    THEN [gen |-> [g EXCEPT !.done = TRUE], out |-> <<>>]
    ELSE LET item == list[g.idx + 1]
             g1 == [g EXCEPT !.idx = @ + 1]
         IN  IF Selects(g, item)
             THEN [gen |-> g1, out |-> <<item>>]
             ELSE generator_next(g1, self_bookings)

\* "for booking in generator": pull until StopIteration, collecting the bookings
RECURSIVE consume(_, _, _)
consume(g, self_bookings, acc) ==
    LET r == generator_next(g, self_bookings) IN
    IF r.out = <<>> THEN acc ELSE consume(r.gen, self_bookings, acc \o r.out)

\* list(self.select_bookings_by_latest_departure_time(departs_before))
latest_departure_list(self_bookings, departs_before) ==
    consume(new_latest_departure_generator(departs_before, self_bookings),
            self_bookings, <<>>)

\* list(self.select_bookings_by_sequential_airports_couple(airport1, airport2))
sequential_couple_list(self_bookings, airport1, airport2) ==
    consume(new_sequential_couple_generator(airport1, airport2, self_bookings),
            self_bookings, <<>>)

\* ------------------------------------------------------------------------
\* add_booking
\* ------------------------------------------------------------------------

\* "assert test, message": the two operands of each assert statement, in the
\* order the source gives them.
itenerary_assert(booking) ==
    [test |-> "received itenerary with length",
     message |-> Len(booking.itenerary) < IteneraryLimit]

bookings_assert(self_bookings) ==
    [test |-> "booking length is already",
     message |-> Len(self_bookings) < BookingsLimit]

\* an assert statement raises AssertionError when its test is false
AssertRaises(a) == ~Truthy(a.test)

\* faulty variant: insert(0, booking)
list_append_front(list, item) == <<item>> \o list

\* self.bookings.append(booking)
list_append(list, item) == Append(list, item)

Raised(self_bookings, exception) ==
    [bookings |-> self_bookings, err |-> exception, ret |-> NoneRef]

HasRepeatedCouple(itin) ==
    \E i, j \in 1..(Len(itin) - 1) :
        i < j /\ itin[i] = itin[j] /\ itin[i + 1] = itin[j + 1]

\* faulty variant: no "return self"
add_booking_call_returns_none(self_bookings, booking) ==
    [bookings |-> list_append(self_bookings, booking), err |-> "none", ret |-> NoneRef]

\* faulty variant: an itinerary that repeats a directed leg is refused
add_booking_call_rejects_repeat(self_bookings, booking) ==
    IF HasRepeatedCouple(booking.itenerary)
    THEN Raised(self_bookings, "AssertionError")
    ELSE [bookings |-> list_append(self_bookings, booking), err |-> "none", ret |-> SelfRef]

\* the body of add_booking: the new list, the exception raised, the value returned
add_booking_call(self_bookings, booking) ==
    IF AssertRaises(itenerary_assert(booking))
    THEN Raised(self_bookings, "AssertionError")
    ELSE IF AssertRaises(bookings_assert(self_bookings))
    THEN Raised(self_bookings, "AssertionError")
    ELSE [bookings |-> list_append(self_bookings, booking), err |-> "none", ret |-> SelfRef]

\* ------------------------------------------------------------------------
\* Actions
\* ------------------------------------------------------------------------

Init ==
    /\ bookings = <<>>
    /\ gens = <<>>
    /\ result = <<>>
    /\ op = Op("init", NoBooking, "", "", 0, FALSE)
    /\ err = "none"
    /\ ret = SelfRef

IsAdd(o) == o.name \in {"add_booking", "add_booking_chained"}

IsSelect(o) == o.name \in {"select_bookings_by_latest_departure_time",
                           "select_bookings_by_sequential_airports_couple"}

\* flights_schedule.add_booking(booking)
add_booking(booking) ==
    /\ Len(bookings) < MaxBookings
    /\ LET r == add_booking_call(bookings, booking) IN
        /\ bookings' = r.bookings
        /\ err' = r.err
        /\ ret' = r.ret
    /\ op' = Op("add_booking", booking, "", "", 0, FALSE)
    /\ gens' = <<>>
    /\ result' = <<>>

\* <previous add_booking expression>.add_booking(booking): the receiver is the
\* value the previous call returned
add_booking_chained(booking) ==
    /\ Len(bookings) < MaxBookings
    /\ IsAdd(op)
    /\ err = "none"
    /\ LET r == IF ret = SelfRef
                THEN add_booking_call(bookings, booking)
                ELSE Raised(bookings, "AttributeError")
       IN
        /\ bookings' = r.bookings
        /\ err' = r.err
        /\ ret' = r.ret
    /\ op' = Op("add_booking_chained", booking, "", "", 0, FALSE)
    /\ gens' = <<>>
    /\ result' = <<>>

\* faulty variant: the query takes the bookings it yields out of the catalog
select_bookings_by_latest_departure_time_destructive(departs_before) ==
    LET o == Op("select_bookings_by_latest_departure_time", NoBooking, "", "",
                departs_before, FALSE)
        same == op.name = o.name /\ op.departs_before = departs_before
    IN
    /\ result' = latest_departure_list(bookings, departs_before)
    /\ bookings' = SelectSeq(bookings, LAMBDA b : ~departs_before_test(b, departs_before))
    /\ op' = [o EXCEPT !.repeat = same]
    /\ err' = "none"
    /\ ret' = GeneratorRef
    /\ gens' = <<>>

\* for booking in flights_schedule.select_bookings_by_latest_departure_time(t)
select_bookings_by_latest_departure_time(departs_before) ==
    LET o == Op("select_bookings_by_latest_departure_time", NoBooking, "", "",
                departs_before, FALSE)
        same == op.name = o.name /\ op.departs_before = departs_before
    IN
    /\ result' = latest_departure_list(bookings, departs_before)
    /\ op' = [o EXCEPT !.repeat = same]
    /\ err' = "none"
    /\ ret' = GeneratorRef
    /\ gens' = <<>>
    /\ UNCHANGED bookings

\* for booking in flights_schedule.select_bookings_by_sequential_airports_couple(a1, a2)
select_bookings_by_sequential_airports_couple(airport1, airport2) ==
    LET o == Op("select_bookings_by_sequential_airports_couple", NoBooking,
                airport1, airport2, 0, FALSE)
        same == /\ op.name = o.name
                /\ op.airport1 = airport1
                /\ op.airport2 = airport2
    IN
    /\ result' = sequential_couple_list(bookings, airport1, airport2)
    /\ op' = [o EXCEPT !.repeat = same]
    /\ err' = "none"
    /\ ret' = GeneratorRef
    /\ gens' = <<>>
    /\ UNCHANGED bookings

Next ==
    \/ \E b \in Bookings : add_booking(b)
    \/ \E b \in Bookings : add_booking_chained(b)
    \/ \E t \in QueryTimes : select_bookings_by_latest_departure_time(t)
    \/ \E a1 \in Airports, a2 \in Airports :
           select_bookings_by_sequential_airports_couple(a1, a2)

Spec == Init /\ [][Next]_vars

\* ------------------------------------------------------------------------
\* A caller that keeps a generator and pulls from it between other calls
\* ------------------------------------------------------------------------

\* flights_schedule.add_booking(booking) while the caller holds a generator
add_booking_during_iteration(booking) ==
    /\ Len(bookings) < MaxBookings
    /\ LET r == add_booking_call(bookings, booking) IN
        /\ bookings' = r.bookings
        /\ err' = r.err
        /\ ret' = r.ret
    /\ op' = Op("add_booking", booking, "", "", 0, FALSE)
    /\ UNCHANGED <<gens, result>>

\* g = flights_schedule.select_bookings_by_latest_departure_time(t)
call_select_bookings_by_latest_departure_time(departs_before) ==
    /\ gens' = <<new_latest_departure_generator(departs_before, bookings)>>
    /\ result' = <<>>
    /\ op' = Op("select_bookings_by_latest_departure_time", NoBooking, "", "",
                departs_before, FALSE)
    /\ err' = "none"
    /\ ret' = GeneratorRef
    /\ UNCHANGED bookings

\* g = flights_schedule.select_bookings_by_sequential_airports_couple(a1, a2)
call_select_bookings_by_sequential_airports_couple(airport1, airport2) ==
    /\ gens' = <<new_sequential_couple_generator(airport1, airport2, bookings)>>
    /\ result' = <<>>
    /\ op' = Op("select_bookings_by_sequential_airports_couple", NoBooking,
                airport1, airport2, 0, FALSE)
    /\ err' = "none"
    /\ ret' = GeneratorRef
    /\ UNCHANGED bookings

\* next(g), the booking it yields being kept by the caller
next_booking ==
    /\ gens # <<>>
    /\ LET r == generator_next(gens[1], bookings) IN
        /\ gens' = <<r.gen>>
        /\ result' = result \o r.out
        /\ err' = IF r.out = <<>> THEN "StopIteration" ELSE "none"
    /\ op' = Op("next", NoBooking, "", "", 0, FALSE)
    /\ ret' = NoneRef
    /\ UNCHANGED bookings

LazyNext ==
    \/ \E b \in LazyBookings : add_booking_during_iteration(b)
    \/ \E t \in QueryTimes : call_select_bookings_by_latest_departure_time(t)
    \/ \E a1 \in LazyAirports, a2 \in LazyAirports :
           call_select_bookings_by_sequential_airports_couple(a1, a2)
    \/ next_booking

LazySpec == Init /\ [][LazyNext]_vars

\* ------------------------------------------------------------------------
\* Vocabulary of the properties
\* ------------------------------------------------------------------------

IsCoupleSelect(o) == o.name = "select_bookings_by_sequential_airports_couple"

IsDepartureSelect(o) == o.name = "select_bookings_by_latest_departure_time"

\* airport x is immediately followed by airport y in the itinerary
AdjacentIn(x, y, itin) ==
    \E j \in 1..(Len(itin) - 1) : itin[j] = x /\ itin[j + 1] = y

Visits(x, itin) == \E j \in 1..Len(itin) : itin[j] = x

Elements(list) == { list[k] : k \in 1..Len(list) }

IsPrefix(s, t) == Len(s) <= Len(t) /\ SubSeq(t, 1, Len(s)) = s

RECURSIVE IsSubsequence(_, _)
IsSubsequence(s, t) ==
    IF s = <<>> THEN TRUE
    ELSE IF t = <<>> THEN FALSE
    ELSE IF Head(s) = Head(t) THEN IsSubsequence(Tail(s), Tail(t))
    ELSE IsSubsequence(s, Tail(t))

Occurrences(list, item) == Cardinality({ k \in 1..Len(list) : list[k] = item })

\* ------------------------------------------------------------------------
\* Properties
\* ------------------------------------------------------------------------

\* C1 (pair-query completeness): when the couple select has been consumed for
\* (airport1, airport2), every held booking whose itinerary has airport1
\* immediately followed by airport2 at some position is among the bookings
\* it yielded.
PairQueryCompleteness ==
    IsCoupleSelect(op) =>
        \A i \in 1..Len(bookings) :
            \A j \in 1..(Len(bookings[i].itenerary) - 1) :
                ( /\ bookings[i].itenerary[j] = op.airport1
                  /\ bookings[i].itenerary[j + 1] = op.airport2 )
                    => bookings[i] \in Elements(result)

\* a couple select that yielded a booking whose matching leg is its last one,
\* after at least one other stop
PairQueryCompletenessWitness ==
    /\ IsCoupleSelect(op)
    /\ \E k \in 1..Len(result) :
        LET itin == result[k].itenerary IN
        /\ Len(itin) >= 3
        /\ itin[Len(itin) - 1] = op.airport1
        /\ itin[Len(itin)] = op.airport2
        /\ ~AdjacentIn(op.airport1, op.airport2, SubSeq(itin, 1, Len(itin) - 1))

\* C2 (pair-query exactness): the couple select raises nothing and yields only
\* held bookings whose itinerary has airport1 immediately followed by
\* airport2; so it yields nothing when no held itinerary has that leg.
PairQueryExactness ==
    IsCoupleSelect(op) =>
        /\ err = "none"
        /\ \A k \in 1..Len(result) :
            /\ result[k] \in Elements(bookings)
            /\ AdjacentIn(op.airport1, op.airport2, result[k].itenerary)

\* a couple select that yielded nothing although the catalog holds a booking
\* with the two airports in reverse order and one with an airport between them
PairQueryExactnessWitness ==
    /\ IsCoupleSelect(op)
    /\ op.airport1 # op.airport2
    /\ result = <<>>
    /\ \E i \in 1..Len(bookings) :
        AdjacentIn(op.airport2, op.airport1, bookings[i].itenerary)
    /\ \E i \in 1..Len(bookings) :
        \E z \in Airports \ {op.airport1, op.airport2} :
            /\ AdjacentIn(op.airport1, z, bookings[i].itenerary)
            /\ AdjacentIn(z, op.airport2, bookings[i].itenerary)

\* C3 (time filter): when the departure select has been consumed for
\* departs_before, a held booking is among the yielded ones if and only if
\* its departure is strictly earlier than departs_before.
TimeFilterCorrectness ==
    IsDepartureSelect(op) =>
        /\ Elements(result) \subseteq Elements(bookings)
        /\ \A i \in 1..Len(bookings) :
            bookings[i] \in Elements(result)
                <=> bookings[i].departure < op.departs_before

\* a departure select over a catalog holding a booking that departs exactly at
\* departs_before (left out) and an earlier one (yielded)
TimeFilterCorrectnessWitness ==
    /\ IsDepartureSelect(op)
    /\ \E i \in 1..Len(bookings) : bookings[i].departure = op.departs_before
    /\ \E i \in 1..Len(bookings) : bookings[i].departure < op.departs_before
    /\ Len(result) = 1

\* C4 (order preservation): what either select yields is a subsequence of the
\* catalog's list, which is kept in insertion order.
OrderPreservation ==
    IsSelect(op) => IsSubsequence(result, bookings)

\* a select that yielded two different bookings
OrderPreservationWitness ==
    /\ IsSelect(op)
    /\ Len(result) >= 2
    /\ result[1] # result[2]

\* C5 (capacity boundary): add_booking accepts exactly the bookings with an
\* itinerary shorter than IteneraryLimit offered to a catalog holding fewer
\* than BookingsLimit bookings, so no held itinerary reaches IteneraryLimit
\* and the catalog never holds more than BookingsLimit bookings.
CapacityBoundary ==
    /\ Len(bookings) <= BookingsLimit
    /\ \A i \in 1..Len(bookings) : Len(bookings[i].itenerary) < IteneraryLimit
    /\ op.name = "add_booking" =>
        LET held_before == IF err = "none" THEN Len(bookings) - 1 ELSE Len(bookings) IN
        (err = "none") <=> ( /\ Len(op.booking.itenerary) < IteneraryLimit
                             /\ held_before < BookingsLimit )

Chainability ==
    [][ /\ (op'.name = "add_booking" /\ err' = "none") => ret' = SelfRef
        /\ op'.name = "add_booking_chained" =>
            /\ err' = "none"
            /\ ret' = SelfRef
            /\ bookings = Append(SubSeq(bookings, 1, Len(bookings) - 1), op.booking)
            /\ bookings' = Append(bookings, op'.booking)
      ]_vars

\* a chained add_booking has appended a second, different booking
ChainabilityWitness ==
    /\ op.name = "add_booking_chained"
    /\ Len(bookings) = 2
    /\ bookings[2] = op.booking
    /\ bookings[1] # bookings[2]

\* C8 (queries are read-only and repeatable): consuming either select leaves
\* the list of bookings as it was, and a select made right after the same
\* select with the same arguments yields the same bookings.
QueriesReadOnly ==
    [][ IsSelect(op') =>
            /\ bookings' = bookings
            /\ op'.repeat => result' = result ]_vars

\* the same select has been made twice in a row and yielded bookings
QueriesReadOnlyWitness ==
    /\ IsSelect(op)
    /\ op.repeat
    /\ Len(result) >= 1
    /\ Len(result) < Len(bookings)

\* C9 (append-only growth): the catalog starts empty, and every step that
\* changes the list of bookings leaves the old list a prefix of the new one
\* and, for every pair of airports and every timestamp, the old answer of
\* each select a prefix of the new answer.
AppendOnlyGrowth ==
    /\ bookings = <<>>
    /\ [][ \/ bookings' = bookings
           \/ /\ IsPrefix(bookings, bookings')
              /\ \A x \in Airports, y \in Airports :
                    IsPrefix(sequential_couple_list(bookings, x, y),
                             sequential_couple_list(bookings', x, y))
              /\ \A t \in QueryTimes :
                    IsPrefix(latest_departure_list(bookings, t),
                             latest_departure_list(bookings', t))
         ]_vars

\* a second, different booking has been added and both answer one couple select
AppendOnlyGrowthWitness ==
    /\ IsAdd(op)
    /\ Len(bookings) = 2
    /\ bookings[1] # bookings[2]
    /\ sequential_couple_list(bookings, "AMS", "LHR") = bookings

\* C10 (lazy evaluation): what the caller has pulled from a generator is the
\* selection over the part of the current list the generator has passed, and
\* when the generator ends it has passed all of the list as it is then, the
\* bookings added after the select call included.
LazyAgainstCurrentState ==
    [][ (op'.name = "next" /\ ~gens[1].done) =>
            /\ result' = SelectSeq(SubSeq(bookings', 1, gens'[1].idx),
                                   LAMBDA b : Selects(gens'[1], b))
            /\ err' = "StopIteration" =>
                /\ gens'[1].idx = Len(bookings')
                /\ result' = SelectSeq(bookings', LAMBDA b : Selects(gens'[1], b))
      ]_vars

\* a generator has ended after yielding a booking that was added after the
\* select call that made it
LazyAgainstCurrentStateWitness ==
    /\ gens # <<>>
    /\ gens[1].done
    /\ gens[1].len_at_call < Len(bookings)
    /\ \E i \in (gens[1].len_at_call + 1)..Len(bookings) :
        /\ Selects(gens[1], bookings[i])
        /\ bookings[i] \in Elements(result)
        /\ bookings[i] \notin Elements(SubSeq(bookings, 1, gens[1].len_at_call))

====
